---- MODULE Spec2Model ----
(***************************************************************************)
(* A model of the websocket-mcp-proxy gateway (src/src/server.js and       *)
(* src/src/http-transport.js).                                             *)
(*                                                                         *)
(*   Spec       the router: tools/list and tools/call handlers running     *)
(*              against the registry of backend sessions (FairSpec adds    *)
(*              the fairness of the gateway's own steps and timers).       *)
(*   SseSpec    one SSE HttpTransport: send, the pending-request table,    *)
(*              its timers and the event stream (SseFairSpec: timers fire; *)
(*              SseCloseSpec: with a caller of disconnect()).              *)
(*   HttpSpec   one sendHTTP call: the response kinds and the streamed     *)
(*              body, delivered in chunks of any size.                     *)
(*   LifeSpec   start(): the start tasks of the configured backends, the   *)
(*              subprocesses, the listening gateway and shutdown().        *)
(*   LoadSpec   the constructor: loadConfig with ConfigValidator.validate, *)
(*              and one start task per entry of the loaded configuration.  *)
(*   EnvSpec    expandEnvironmentVariables on a parsed configuration.      *)
(*                                                                         *)
(* Strings of the program are sequences of one-character strings, so that  *)
(* splitting and joining are computed, not assumed.                        *)
(***************************************************************************)
EXTENDS Integers, Sequences, FiniteSets, TLC

VARIABLES
    mcpServers,     \* this.mcpServers: the registry keys, in insertion order
    procAlive,      \* the STDIO backends whose subprocess has not exited
    ws,             \* per client connection: "none", "open" or "closed"
    req,            \* per client request: where its handler stands
    sent,           \* the requests handed to backend sessions so far
    \* one HttpTransport of type SSE (SseSpec)
    now,            \* Date.now()
    calls,          \* per send(): its promise, its id and its timer
    pendingRequests,\* this.pendingRequests: id -> the send whose resolve it holds
    emitted,        \* what the transport emitted: the ids of unmatched messages, 'error'
    arrived,        \* the ids that have arrived on the event stream
    \* one sendHTTP call of a STREAMABLE_HTTP HttpTransport (HttpSpec)
    httpSt,         \* "idle", "reading" or "returned"
    contentType,    \* how the response is to be read
    msgId,          \* message.id
    fullBody,       \* the whole response body
    body,           \* the part of it reader.read() has not delivered yet
    buffer,         \* the local buffer
    httpResult,     \* what the call returned or threw
    \* start() and shutdown() (LifeSpec)
    phase,          \* "starting", "listening", "exited" or "crashed"
    begun,          \* how many start tasks initializeMCPServers has begun
    start,          \* per configured backend: where its start task stands
    child,          \* per STDIO backend: its subprocess
    exitHandler,    \* the subprocesses with an 'exit' listener
    task,           \* per signal: where its shutdown() call stands
    closeCount,     \* per backend: calls of its transport's close operation
    killCount,      \* per backend: calls of process.kill()
    wsCloseCount,   \* per client connection: calls of ws.close()
    connected,      \* per backend: its HttpTransport's connected flag
    probes,         \* per backend: the initialize probes connectHTTP has sent
    probeLog,       \* per backend: how its connect() went
    \* new MCPProxyServer(configPath) and the start tasks it leads to (LoadSpec)
    loadSt,         \* "new", "loaded" or "refused" (process.exit(1))
    config,         \* this.config
    validation,     \* what ConfigValidator.validate made of the configuration
    sessions,       \* the sessions (subprocess or transport) started so far
    \* ConfigValidator.expandEnvironmentVariables (EnvSpec)
    doc,            \* the configuration parse() returned
    environ,        \* process.env
    expanded,       \* what expandEnvironmentVariables returned or threw
    \* the status endpoint
    health          \* the last answer of GET /health

routerVars == <<mcpServers, procAlive, ws, req, sent>>
sseVars == <<now, calls, pendingRequests, emitted, arrived>>
httpVars == <<httpSt, contentType, msgId, fullBody, body, buffer, httpResult>>
bootVars == <<phase, begun, start, child, exitHandler, task, closeCount,
              killCount, wsCloseCount, connected, probes, probeLog>>
loadVars == <<loadSt, config, validation, sessions>>
envVars == <<doc, environ, expanded>>
statusVars == <<health>>
vars == <<routerVars, sseVars, httpVars, bootVars, loadVars, envVars, statusVars>>

-----------------------------------------------------------------------------
(* Bounds and the configuration the model runs with.                        *)

MaxReqs == 1
MaxColons == 2

Reqs == 1..MaxReqs
Clients == {"k1"}

NameA == <<"a">>
NameB == <<"b">>
NameC == <<"c">>

\* config.servers, in configuration order
Servers == <<NameA, NameB, NameC>>
Backends == {Servers[i] : i \in 1..Len(Servers)}

\* serverConfig.type (default 'STDIO')
TypeOf(b) ==
    CASE b = NameA -> "STDIO"
      [] b = NameB -> "SSE"
      [] OTHER     -> "STREAMABLE_HTTP"

\* What each backend's own tools/list reports: every backend has a tool "r",
\* and backend b one whose name holds a ':' (the gateway puts no condition on
\* the names a backend reports).
ToolR == [name |-> <<"r">>, description |-> <<"R">>]
ToolS == [name |-> <<"s">>, description |-> <<"S">>]
ToolRS == [name |-> <<"r", ":", "s">>, description |-> <<"Q">>]
Tools(b) ==
    CASE b = NameC -> <<ToolR, ToolS>>
      [] b = NameB -> <<ToolR, ToolRS>>
      [] OTHER     -> <<ToolR>>

-----------------------------------------------------------------------------
(* Strings.                                                                 *)

Min(x, y) == IF x <= y THEN x ELSE y

\* String.prototype.split(sep) with a one-character separator
RECURSIVE SplitSeq(_, _)
SplitSeq(s, sep) ==
    IF s = <<>> THEN << <<>> >>
    ELSE LET rest == SplitSeq(Tail(s), sep)
         IN  IF Head(s) = sep
             THEN << <<>> >> \o rest
             ELSE << <<Head(s)>> \o Head(rest) >> \o Tail(rest)

\* split(sep, limit): the first `limit` pieces of the full split
JsSplit(s, sep, limit) ==
    LET all == SplitSeq(s, sep) IN SubSeq(all, 1, Min(limit, Len(all)))

\* the value of a missing array element in a destructuring assignment
Undefined == <<"undefined!">>

Destructure(parts, i) == IF i <= Len(parts) THEN parts[i] ELSE Undefined

\* !x for a string or undefined
FalsyOnlyUndefined(x) == x = Undefined
Falsy(x) == x = Undefined \/ x = <<>>

RECURSIVE Repeat(_, _)
Repeat(c, n) == IF n = 0 THEN <<>> ELSE <<c>> \o Repeat(c, n - 1)

\* The tool names clients send: an optional backend part, up to MaxColons
\* separators, an optional tool part; a tool part that holds a separator; and
\* a name joined by '/'.
CallNames ==
    { bp \o Repeat(":", k) \o tp :
        bp \in Backends \cup {<<>>, <<"z">>}, k \in 0..MaxColons, tp \in {<<>>, <<"r">>} }
    \cup {NameA \o <<":", "r", ":", "s">>, NameB \o <<":", "r", ":", "s">>,
          NameB \o <<"/", "r">>}

-----------------------------------------------------------------------------
(* Values.                                                                  *)

\* What a backend session's request() resolves with, by its shape:
\*   "tools"      { tools: [...] }                 (SDK result of tools/list)
\*   "bare"       an object with no result member  (SDK result of tools/call)
\*   "envelope"   { jsonrpc, id, result: {...} }   (HTTP/SSE reply)
\*   "rpcerror"   { jsonrpc, id, error: {...} }    (HTTP/SSE error reply)
\*   "falsy"      { jsonrpc, id, result: v } with v one of null, false, 0, ""
\*   "undefined"  sendHTTP fell off its end
NoReply == [shape |-> "none", from |-> <<>>]
Reply(shape, b) == [shape |-> shape, from |-> b]

NoOut == [kind |-> "none", err |-> "none", tools |-> <<>>, reply |-> NoReply,
          wrapped |-> FALSE]
ErrorOut(e) == [NoOut EXCEPT !.kind = "error", !.err = e]
ToolsOut(ts) == [NoOut EXCEPT !.kind = "result", !.tools = ts]
CallOut(rep, w) == [NoOut EXCEPT !.kind = "result", !.reply = rep, !.wrapped = w]

IdleReq ==
    [st |-> "idle", client |-> "none", method |-> "none", name |-> <<>>,
     backend |-> <<>>, tool |-> <<>>, wait |-> "none", todo |-> <<>>,
     snap |-> <<>>, acc |-> <<>>, failed |-> {}, got |-> {}, out |-> NoOut]

Range(s) == {s[i] : i \in 1..Len(s)}

\* Map.prototype.delete on the insertion-ordered keys
MapKeep(m, k) == m
MapDelete(m, k) == SelectSeq(m, LAMBDA x : x # k)


-----------------------------------------------------------------------------
(* One HttpTransport of type SSE (http-transport.js).                       *)

MaxSends == 2
MaxClock == 1

Sends == 1..MaxSends

\* the ids the router gives its requests: `call-${Date.now()}` (the ids of
\* tools/list, `list-${Date.now()}`, are formed the same way); a timer that
\* fires moves the clock, at most MaxSends times past MaxClock
Prefixes == {"call"}
IdSpace == [m : Prefixes, t : 0..(MaxClock + MaxSends)]
\* an event that carries no id (a notification)
NoId == [m |-> "none", t |-> 0]

\* the 'error' event the transport emits
ErrorEvent == [m |-> "error", t |-> 0]
\* the 'disconnect' event
DisconnectEvent == [m |-> "disconnect", t |-> 0]
\* the registry key of the session this transport belongs to
SseBackend == NameB

IdleCall == [st |-> "idle", id |-> NoId, reg |-> 0, timer |-> "none",
             settles |-> 0, err |-> "none"]

\* the timer sendSSE creates with the pending entry
NoTimerAfterPost == "none"
TimerAfterPost == "armed"

\* Date.now() once a timer set at `reg` has run: 30000 ms later at the earliest
AfterTimer(reg) == IF now > reg THEN now ELSE reg + 1

UsedIds == {calls[i].id : i \in {j \in Sends : calls[j].st # "idle"}}

SseStart ==
    /\ now = 0
    /\ calls = [i \in Sends |-> IdleCall]
    /\ pendingRequests = [id \in IdSpace |-> 0]
    /\ emitted = {}
    /\ arrived = {}

\* the router calls server.request with a fresh id, and send() throws on a
\* transport that is not connected, or send() -> sendSSE starts the POST
SendSSE(i, m) ==
    /\ calls[i].st = "idle"
    /\ \A j \in Sends : j < i => calls[j].st # "idle"
    /\ calls' = IF connected[SseBackend]
                THEN [calls EXCEPT ![i].st = "posting", ![i].id = [m |-> m, t |-> now]]
                ELSE [calls EXCEPT ![i].st = "rejected", ![i].id = [m |-> m, t |-> now],
                                   ![i].err = "Transport not connected",
                                   ![i].settles = @ + 1]
    /\ UNCHANGED <<now, pendingRequests, emitted, arrived, routerVars, httpVars, bootVars,
                   loadVars, envVars, statusVars>>

\* the POST came back ok: the promise's timer is set and its entry stored
\* under message.id
PostAccepted(i) ==
    /\ calls[i].st = "posting"
    /\ calls' = [calls EXCEPT ![i].st = "pending", ![i].reg = now,
                              ![i].timer = TimerAfterPost]
    /\ pendingRequests' = [pendingRequests EXCEPT ![calls[i].id] = i]
    /\ UNCHANGED <<now, emitted, arrived, routerVars, httpVars, bootVars,
                   loadVars, envVars, statusVars>>

\* fetch threw or the POST was not ok: sendSSE throws
PostRejected(i) ==
    /\ calls[i].st = "posting"
    /\ calls' = [calls EXCEPT ![i].st = "rejected", ![i].err = "SSE POST failed",
                              ![i].settles = @ + 1]
    /\ UNCHANGED <<now, pendingRequests, emitted, arrived, routerVars, httpVars, bootVars,
                   loadVars, envVars, statusVars>>

\* eventSource.onmessage -> handleMessage(data) with data.id = id
HandleMessage(id) ==
    /\ connected[SseBackend]
    /\ id \in UsedIds \cup {NoId}
    /\ arrived' = arrived \cup {id}
    /\ IF id # NoId /\ pendingRequests[id] # 0
       THEN LET o == pendingRequests[id]
            IN  /\ calls' = [calls EXCEPT ![o].st = "resolved", ![o].timer = "cleared",
                                          ![o].settles = @ + 1]
                /\ pendingRequests' = [pendingRequests EXCEPT ![id] = 0]
                /\ UNCHANGED emitted
       ELSE /\ emitted' = emitted \cup {id}
            /\ UNCHANGED <<calls, pendingRequests>>
    /\ UNCHANGED <<now, routerVars, httpVars, bootVars, loadVars, envVars, statusVars>>

\* the setTimeout callback of send i
RequestTimeout(i) ==
    /\ calls[i].timer = "armed"
    /\ pendingRequests' = [pendingRequests EXCEPT ![calls[i].id] = 0]
    /\ calls' = [calls EXCEPT ![i].st = "rejected", ![i].err = "SSE request timeout",
                              ![i].timer = "fired", ![i].settles = @ + 1]
    /\ now' = AfterTimer(calls[i].reg)
    /\ UNCHANGED <<emitted, arrived, routerVars, httpVars, bootVars, loadVars, envVars, statusVars>>

\* eventSource.onerror: the transport emits 'error', which startHttpServer's
\* listener logs
EventSourceError ==
    /\ connected[SseBackend]
    /\ emitted' = emitted \cup {ErrorEvent}
    /\ UNCHANGED <<now, calls, pendingRequests, arrived, routerVars, httpVars, bootVars,
                   loadVars, envVars, statusVars>>

\* the sends whose entry the table holds
Registered == {pendingRequests[id] : id \in IdSpace} \ {0}

\* disconnect(): the event source is closed, every entry's timer is cleared
\* and its promise rejected, the table is cleared, and 'disconnect' is
\* emitted, on which startHttpServer's listener deletes the registry entry
Disconnect ==
    /\ connected[SseBackend]
    /\ calls' = [i \in Sends |->
                    IF i \in Registered
                    THEN [calls[i] EXCEPT !.st = "rejected", !.err = "Transport disconnected",
                                          !.timer = "cleared", !.settles = @ + 1]
                    ELSE calls[i]]
    /\ pendingRequests' = [id \in IdSpace |-> 0]
    /\ connected' = [connected EXCEPT ![SseBackend] = FALSE]
    /\ emitted' = emitted \cup {DisconnectEvent}
    /\ mcpServers' = MapDelete(mcpServers, SseBackend)
    /\ UNCHANGED <<now, arrived, procAlive, ws, req, sent, httpVars, loadVars, envVars,
                   statusVars, phase, begun, start, child, exitHandler, task, closeCount,
                   killCount, wsCloseCount, probes, probeLog>>

Tick ==
    /\ now < MaxClock
    /\ now' = now + 1
    /\ UNCHANGED <<calls, pendingRequests, emitted, arrived, routerVars, httpVars, bootVars,
                   loadVars, envVars, statusVars>>

SseNext ==
    \/ \E i \in Sends, m \in Prefixes : SendSSE(i, m)
    \/ \E i \in Sends : PostAccepted(i)
    \/ \E i \in Sends : PostRejected(i)
    \/ \E id \in IdSpace \cup {NoId} : HandleMessage(id)
    \/ \E i \in Sends : RequestTimeout(i)
    \/ EventSourceError
    \/ Tick

\* the transport with a caller of its disconnect(); the gateway has none
SseCloseNext ==
    \/ SseNext
    \/ Disconnect


-----------------------------------------------------------------------------
(* One sendHTTP call (http-transport.js).  A JSON text is two characters,   *)
(* the id and the payload ("p": partial true, "r": result 42), or the one   *)
(* character "n", an object with no id.                                     *)

MaxPieces == 4

IdChars == {"x", "y"}
PayloadChars == {"p", "r"}
LF == "\n"

Pieces == {<<"x", "p">>, <<"x", "r">>, <<"y", "r">>, <<"n">>, <<"{">>, <<" ">>, <<LF>>}

RECURSIVE BodiesOf(_)
BodiesOf(n) ==
    IF n = 0 THEN {<<>>}
    ELSE LET shorter == BodiesOf(n - 1)
         IN  shorter \cup {b \o p : b \in shorter, p \in Pieces}

Bodies == BodiesOf(MaxPieces)

\* the longest piece has two characters
MaxBodyLen == MaxPieces + MaxPieces

Front(s) == SubSeq(s, 1, Len(s) - 1)
Last(s) == s[Len(s)]

\* String.prototype.trim over the characters of the model
RECURSIVE TrimStart(_)
TrimStart(s) == IF s # <<>> /\ Head(s) \in {" ", LF} THEN TrimStart(Tail(s)) ELSE s

RECURSIVE TrimEnd(_)
TrimEnd(s) == IF s # <<>> /\ Last(s) \in {" ", LF} THEN TrimEnd(Front(s)) ELSE s

Trim(s) == TrimEnd(TrimStart(s))

NoData == [ok |-> FALSE, id |-> "none", payload |-> "none"]
Data(id, payload) == [ok |-> TRUE, id |-> id, payload |-> payload]

\* JSON.parse: white space around the one value is allowed, nothing else is
JsonParse(s) ==
    LET t == Trim(s)
    IN  IF Len(t) = 2 /\ t[1] \in IdChars /\ t[2] \in PayloadChars
        THEN Data(t[1], t[2])
        ELSE IF t = <<"n">> THEN Data("none", "n") ELSE NoData

NoResult == [kind |-> "none", id |-> "none", payload |-> "none", text |-> <<>>]
JsonResult(d) == [NoResult EXCEPT !.kind = "json", !.id = d.id, !.payload = d.payload]
WrappedResult(t) == [NoResult EXCEPT !.kind = "wrapped", !.text = t]
UndefinedResult == [NoResult EXCEPT !.kind = "undefined"]
ThrownResult == [NoResult EXCEPT !.kind = "thrown"]

\* JSON.parse(text) or, when that throws, { result: text }
ParseOrWrap(t) ==
    IF JsonParse(t).ok THEN JsonResult(JsonParse(t)) ELSE WrappedResult(t)

\* data.id === message.id
SkipsPartial(d, id) == d.ok /\ d.id = id /\ d.payload # "p"
MatchesRequest(d, id) == d.ok /\ d.id = id

\* the for loop over the complete lines of one chunk
RECURSIVE FirstMatch(_, _)
FirstMatch(lines, id) ==
    IF lines = <<>> THEN NoData
    ELSE IF Trim(Head(lines)) # <<>> /\ MatchesRequest(JsonParse(Head(lines)), id)
         THEN JsonParse(Head(lines))
         ELSE FirstMatch(Tail(lines), id)

\* one turn of the while loop after reader.read() delivered `chunk`
ProcessChunkNoCarry(buf, chunk, id) ==
    LET lines == SplitSeq(chunk, LF)
    IN  [data |-> FirstMatch(Front(lines), id), buffer |-> Last(lines)]
ProcessChunk(buf, chunk, id) ==
    LET lines == SplitSeq(buf \o chunk, LF)
    IN  [data |-> FirstMatch(Front(lines), id), buffer |-> Last(lines)]

\* after the loop: the remaining buffer
RemainderDiscarded(buf) == UndefinedResult
Remainder(buf) == IF Trim(buf) # <<>> THEN ParseOrWrap(buf) ELSE UndefinedResult

HttpStart ==
    /\ httpSt = "idle"
    /\ contentType = "none"
    /\ msgId = "none"
    /\ fullBody = <<>>
    /\ body = <<>>
    /\ buffer = <<>>
    /\ httpResult = NoResult

\* fetch resolved: the status and the content type decide how the body is read
SendHTTP(id, kind) ==
    /\ httpSt = "idle"
    /\ \E b \in Bodies :
          /\ fullBody' = b
          /\ CASE kind = "notok" ->
                    httpSt' = "returned" /\ httpResult' = ThrownResult /\ body' = <<>>
               [] kind = "json" ->
                    /\ httpSt' = "returned"
                    /\ httpResult' = IF JsonParse(b).ok THEN JsonResult(JsonParse(b))
                                                        ELSE ThrownResult
                    /\ body' = <<>>
               [] kind = "text" ->
                    httpSt' = "returned" /\ httpResult' = ParseOrWrap(b) /\ body' = <<>>
               [] OTHER ->
                    httpSt' = "reading" /\ httpResult' = NoResult /\ body' = b
    /\ msgId' = id
    /\ contentType' = kind
    /\ buffer' = <<>>
    /\ UNCHANGED <<routerVars, sseVars, bootVars, loadVars, envVars, statusVars>>

\* reader.read() delivers the next n characters
ReadChunkEager(n) ==
    /\ httpSt = "reading"
    /\ n \in 1..Len(body)
    /\ LET lines == SplitSeq(buffer \o SubSeq(body, 1, n), LF)
           data  == FirstMatch(lines, msgId)
       IN  /\ body' = SubSeq(body, n + 1, Len(body))
           /\ IF data.ok
              THEN /\ httpSt' = "returned"
                   /\ httpResult' = JsonResult(data)
                   /\ UNCHANGED buffer
              ELSE /\ buffer' = Last(lines)
                   /\ UNCHANGED <<httpSt, httpResult>>
    /\ UNCHANGED <<contentType, msgId, fullBody, routerVars, sseVars, bootVars,
                   loadVars, envVars, statusVars>>
ReadChunk(n) ==
    /\ httpSt = "reading"
    /\ n \in 1..Len(body)
    /\ LET step == ProcessChunk(buffer, SubSeq(body, 1, n), msgId)
       IN  /\ body' = SubSeq(body, n + 1, Len(body))
           /\ IF step.data.ok
              THEN /\ httpSt' = "returned"
                   /\ httpResult' = JsonResult(step.data)
                   /\ UNCHANGED buffer
              ELSE /\ buffer' = step.buffer
                   /\ UNCHANGED <<httpSt, httpResult>>
    /\ UNCHANGED <<contentType, msgId, fullBody, routerVars, sseVars, bootVars,
                   loadVars, envVars, statusVars>>

\* reader.read() reports done
StreamEnd ==
    /\ httpSt = "reading"
    /\ body = <<>>
    /\ httpSt' = "returned"
    /\ httpResult' = Remainder(buffer)
    /\ UNCHANGED <<contentType, msgId, fullBody, body, buffer, routerVars, sseVars, bootVars,
                   loadVars, envVars, statusVars>>

HttpNext ==
    \/ \E k \in {"notok", "json", "text", "stream"} : SendHTTP("x", k)
    \/ \E n \in 1..MaxBodyLen : ReadChunk(n)
    \/ StreamEnd

-----------------------------------------------------------------------------
(* The router (server.js, setupHandlers).                                   *)

\* const [serverName, actualToolName] = toolName.split(':', 2)
ParseToolName(toolName) == JsSplit(toolName, ":", 2)

\* the session this.mcpServers.get(serverName) yields, named by its key
LookupFirstSession(serverName) == mcpServers[1]
LookupSession(serverName) == serverName

\* whether this.mcpServers.get(serverName) yields an entry
RegistryHasAny(serverName) == mcpServers # <<>>
RegistryHas(serverName) == \E i \in 1..Len(mcpServers) : mcpServers[i] = serverName

\* response.tools || response.result?.tools || []
ToolsIn(rep) == IF rep.shape \in {"tools", "envelope"} THEN Tools(rep.from) ELSE <<>>

\* tools.map(tool => ({...tool, name: `${serverName}:${tool.name}`, ...}))
NamePrefixedTools(serverName, tools) ==
    [i \in 1..Len(tools) |->
        [name        |-> serverName \o <<":">> \o tools[i].name,
         description |-> tools[i].description]]
PrefixedTools(serverName, tools) ==
    [i \in 1..Len(tools) |->
        [name        |-> serverName \o <<":">> \o tools[i].name,
         description |-> <<"[">> \o serverName \o <<"]", " ">> \o tools[i].description]]

\* what server.request() does first, by session type
WaitOf(b) ==
    CASE TypeOf(b) = "STDIO" -> "stdio"
      [] TypeOf(b) = "SSE"   -> "posting"
      [] OTHER               -> "fetching"

SentMsg(r, b, method, tool) == [req |-> r, backend |-> b, method |-> method, tool |-> tool]

\* connectionServer's reply through transport.send: written only to an OPEN socket
Respond(q, out) ==
    [q EXCEPT !.st = IF ws[q.client] = "open" THEN "answered" ELSE "dropped",
              !.wait = "none", !.out = out]

Await(q, b, tool) == [q EXCEPT !.st = "waiting", !.backend = b, !.tool = tool, !.wait = WaitOf(b)]

\* the entries a for..of over the live Map still visits
StillRegistered(todo) == SelectSeq(todo, LAMBDA b : b \in Range(mcpServers))

NextCanonical(r) == req[r].st = "idle" /\ \A q \in Reqs : q < r => req[q].st # "idle"

ClientConnect(c) ==
    /\ ws[c] = "none"
    /\ ws' = [ws EXCEPT ![c] = "open"]
    /\ UNCHANGED <<mcpServers, procAlive, req, sent, sseVars, httpVars, bootVars,
                   loadVars, envVars, statusVars>>

\* ws 'close': the connection leaves clientConnections
ClientCloseDropsSessions(c) ==
    /\ ws[c] = "open"
    /\ ws' = [ws EXCEPT ![c] = "closed"]
    /\ mcpServers' = <<>>
    /\ UNCHANGED <<procAlive, req, sent, sseVars, httpVars, bootVars, loadVars, envVars,
                   statusVars>>
ClientClose(c) ==
    /\ ws[c] = "open"
    /\ ws' = [ws EXCEPT ![c] = "closed"]
    /\ UNCHANGED <<mcpServers, procAlive, req, sent, sseVars, httpVars, bootVars,
                   loadVars, envVars, statusVars>>

\* CallToolRequestSchema handler, up to its first await
ReceiveCall(c, r, toolName) ==
    /\ ws[c] = "open"
    /\ NextCanonical(r)
    /\ LET parts          == ParseToolName(toolName)
           serverName     == Destructure(parts, 1)
           actualToolName == Destructure(parts, 2)
           q == [req[r] EXCEPT !.client = c, !.method = "tools/call", !.name = toolName,
                               !.snap = mcpServers]
       IN  IF Falsy(serverName) \/ Falsy(actualToolName)
           THEN /\ req' = [req EXCEPT ![r] = Respond(q, ErrorOut("MalformedToolName"))]
                /\ UNCHANGED sent
           ELSE IF ~RegistryHas(serverName)
           THEN /\ req' = [req EXCEPT ![r] = Respond(q, ErrorOut("UnknownBackend"))]
                /\ UNCHANGED sent
           ELSE LET b == LookupSession(serverName)
                IN  /\ req' = [req EXCEPT ![r] = Await(q, b, actualToolName)]
                    /\ sent' = sent \cup {SentMsg(r, b, "tools/call", actualToolName)}
    /\ UNCHANGED <<mcpServers, procAlive, ws, sseVars, httpVars, bootVars,
                   loadVars, envVars, statusVars>>

\* ListToolsRequestSchema handler, up to its first await
ReceiveList(c, r) ==
    /\ ws[c] = "open"
    /\ NextCanonical(r)
    /\ LET q == [req[r] EXCEPT !.client = c, !.method = "tools/list", !.snap = mcpServers]
       IN  IF mcpServers = <<>>
           THEN /\ req' = [req EXCEPT ![r] = Respond(q, ToolsOut(<<>>))]
                /\ UNCHANGED sent
           ELSE /\ req' = [req EXCEPT ![r] =
                              [Await(q, Head(mcpServers), <<>>) EXCEPT !.todo = Tail(mcpServers)]]
                /\ sent' = sent \cup {SentMsg(r, Head(mcpServers), "tools/list", <<>>)}
    /\ UNCHANGED <<mcpServers, procAlive, ws, sseVars, httpVars, bootVars,
                   loadVars, envVars, statusVars>>

\* response.result ? ... : ...
ResultTruthy(rep) == rep.shape = "envelope"

\* the rest of the tools/call handler once the awaited request has settled:
\* return response.result ? response : { content: response }
CallSettled(q, ok, rep, err) ==
    IF ~ok THEN Respond(q, ErrorOut(err))
    ELSE IF rep.shape = "undefined" THEN Respond(q, ErrorOut("TypeError"))
    ELSE Respond(q, CallOut(rep, ~ResultTruthy(rep)))

\* one backend's turn of the tools/list loop has settled: keep its tools or
\* log and skip it
\* (req.failed and req.got only record which backends threw and which
\* delivered their tools)
ListDropsOnFailure(q, ok, rep) ==
    IF ok /\ rep.shape # "undefined"
    THEN [q EXCEPT !.acc = @ \o PrefixedTools(q.backend, ToolsIn(rep)),
                   !.got = IF ToolsIn(rep) # <<>> THEN @ \cup {q.backend} ELSE @]
    ELSE [q EXCEPT !.failed = @ \cup {q.backend}, !.acc = <<>>]
ListCollected(q, ok, rep) ==
    IF ok /\ rep.shape # "undefined"
    THEN [q EXCEPT !.acc = @ \o PrefixedTools(q.backend, ToolsIn(rep)),
                   !.got = IF ToolsIn(rep) # <<>> THEN @ \cup {q.backend} ELSE @]
    ELSE [q EXCEPT !.failed = @ \cup {q.backend}]

\* the awaited server.request() of request r settles
Settle(r, ok, rep, err) ==
    LET q == req[r] IN
    IF q.method = "tools/call"
    THEN /\ req' = [req EXCEPT ![r] = CallSettled(q, ok, rep, err)]
         /\ UNCHANGED sent
    ELSE LET q2   == ListCollected(q, ok, rep)
             rest == StillRegistered(q2.todo)
         IN  IF rest = <<>>
             THEN /\ req' = [req EXCEPT ![r] = Respond([q2 EXCEPT !.todo = <<>>], ToolsOut(q2.acc))]
                  /\ UNCHANGED sent
             ELSE /\ req' = [req EXCEPT ![r] =
                                [Await(q2, Head(rest), <<>>) EXCEPT !.todo = Tail(rest)]]
                  /\ sent' = sent \cup {SentMsg(r, Head(rest), "tools/list", <<>>)}

\* the shapes a session of each type resolves a request with
StdioShape(method) == IF method = "tools/list" THEN "tools" ELSE "bare"

\* STDIO: the SDK's Server.request resolves with the backend's result
StdioReply(r) ==
    /\ req[r].wait = "stdio"
    /\ Settle(r, TRUE, Reply(StdioShape(req[r].method), req[r].backend), "none")
    /\ UNCHANGED <<mcpServers, procAlive, ws, sseVars, httpVars, bootVars,
                   loadVars, envVars, statusVars>>

\* STDIO: the backend answered with an error and the SDK rejects
StdioReject(r) ==
    /\ req[r].wait = "stdio"
    /\ Settle(r, FALSE, NoReply, "BackendRejected")
    /\ UNCHANGED <<mcpServers, procAlive, ws, sseVars, httpVars, bootVars,
                   loadVars, envVars, statusVars>>

\* STDIO: the SDK's request timeout
StdioTimeout(r) ==
    /\ req[r].wait = "stdio"
    /\ Settle(r, FALSE, NoReply, "BackendTimeout")
    /\ UNCHANGED <<mcpServers, procAlive, ws, sseVars, httpVars, bootVars,
                   loadVars, envVars, statusVars>>

\* sendSSE: the POST came back ok; the pending entry and its timer now exist
SsePostOk(r) ==
    /\ req[r].wait = "posting"
    /\ req' = [req EXCEPT ![r].wait = "pending"]
    /\ UNCHANGED <<mcpServers, procAlive, ws, sent, sseVars, httpVars, bootVars,
                   loadVars, envVars, statusVars>>

\* sendSSE: the POST failed (fetch threw, or !response.ok)
SsePostFail(r) ==
    /\ req[r].wait = "posting"
    /\ Settle(r, FALSE, NoReply, "BackendUnavailable")
    /\ UNCHANGED <<mcpServers, procAlive, ws, sseVars, httpVars, bootVars,
                   loadVars, envVars, statusVars>>

\* handleMessage resolves the pending entry with the event's data
SseResolve(r, shape) ==
    /\ req[r].wait = "pending"
    /\ shape \in {"envelope", "rpcerror", "falsy"}
    /\ Settle(r, TRUE, Reply(shape, req[r].backend), "none")
    /\ UNCHANGED <<mcpServers, procAlive, ws, sseVars, httpVars, bootVars,
                   loadVars, envVars, statusVars>>

\* sendSSE's 30 s timer rejects
SseTimeout(r) ==
    /\ req[r].wait = "pending"
    /\ Settle(r, FALSE, NoReply, "BackendTimeout")
    /\ UNCHANGED <<mcpServers, procAlive, ws, sseVars, httpVars, bootVars,
                   loadVars, envVars, statusVars>>

\* sendHTTP returns a body (or falls off its end with undefined)
HttpReply(r, shape) ==
    /\ req[r].wait = "fetching"
    /\ shape \in {"envelope", "rpcerror", "falsy", "undefined"}
    /\ Settle(r, TRUE, Reply(shape, req[r].backend), "none")
    /\ UNCHANGED <<mcpServers, procAlive, ws, sseVars, httpVars, bootVars,
                   loadVars, envVars, statusVars>>

\* sendHTTP throws (fetch threw, or !response.ok)
HttpReject(r) ==
    /\ req[r].wait = "fetching"
    /\ Settle(r, FALSE, NoReply, "BackendUnavailable")
    /\ UNCHANGED <<mcpServers, procAlive, ws, sseVars, httpVars, bootVars,
                   loadVars, envVars, statusVars>>

\* GET /health before any request
NoHealth == [servers |-> <<"none!">>, totalServers |-> 0]

HealthStart == health = NoHealth

\* the http server's request listener for /health:
\* { servers: Array.from(this.mcpServers.keys()), totalServers: this.mcpServers.size }
HealthCheck ==
    /\ phase = "listening"
    /\ health' = [servers |-> mcpServers, totalServers |-> Len(mcpServers)]
    /\ UNCHANGED <<routerVars, sseVars, httpVars, bootVars, loadVars, envVars>>

\* childProcess.on('exit'): the backend leaves the registry
ProcExitClears(b) ==
    /\ b \in procAlive
    /\ procAlive' = procAlive \ {b}
    /\ mcpServers' = <<>>
    /\ UNCHANGED <<ws, req, sent, sseVars, httpVars, bootVars, loadVars, envVars, statusVars>>
ProcExit(b) ==
    /\ b \in procAlive
    /\ procAlive' = procAlive \ {b}
    /\ mcpServers' = MapDelete(mcpServers, b)
    /\ UNCHANGED <<ws, req, sent, sseVars, httpVars, bootVars, loadVars, envVars, statusVars>>

\* The gateway once initializeMCPServers has registered every configured
\* backend and the WebSocket server is listening.
-----------------------------------------------------------------------------
(* The constructor: loadConfig and ConfigValidator (server.js,              *)
(* config-validator.js).  `cfg` is the configuration as                     *)
(* expandEnvironmentVariables returned it.                                  *)

MaxServers == 2
MinPort == 1
MaxPort == 65535

\* proxy.port: a value of some JavaScript type; a number is n, or n + 1/2
PortOf(t, n, half) == [t |-> t, n |-> n, half |-> half]
PortChoices ==
    {PortOf("undefined", 0, FALSE), PortOf("string", 8080, FALSE),
     PortOf("number", 0, FALSE), PortOf("number", 0 - 1, FALSE),
     PortOf("number", 8080, FALSE), PortOf("number", 8080, TRUE),
     PortOf("number", MaxPort, FALSE), PortOf("number", MaxPort, TRUE),
     PortOf("number", MaxPort + 1, FALSE)}

\* !port
PortFalsy(port) == port.t = "undefined" \/ (port.t = "number" /\ port.n = 0 /\ ~port.half)
\* port < 1 and port > 65535, with undefined compared as NaN
PortBelow(port) == port.t # "undefined" /\ port.n < MinPort
PortAbove(port) == port.t # "undefined" /\ (port.n > MaxPort \/ (port.n = MaxPort /\ port.half))

ProxyChoices ==
    {[present |-> FALSE, port |-> PortOf("undefined", 0, FALSE)]}
        \cup {[present |-> TRUE, port |-> pt] : pt \in PortChoices}

\* one entry of config.servers
Descriptor(name, type, command, args, url, env) ==
    [name |-> name, type |-> type, command |-> command, args |-> args,
     url |-> url, env |-> env]

Plain(name, type, command, url) == Descriptor(name, type, command, "undefined", url, "undefined")

ServerChoices ==
    {Plain(NameA, "STDIO", "cmd", "undefined"),
     Plain(NameA, "undefined", "cmd", "undefined"),
     Plain(NameB, "SSE", "undefined", "ok"),
     Plain(NameC, "STREAMABLE_HTTP", "undefined", "ok"),
     Plain(NameA, "SSE", "undefined", "ok"),
     Plain(NameA \o <<":">> \o NameB, "STDIO", "cmd", "undefined"),
     Plain(<<":">>, "SSE", "undefined", "ok"),
     Plain(Undefined, "STDIO", "cmd", "undefined"),
     Plain(NameB, "WS", "cmd", "ok"),
     Plain(NameB, "STDIO", "undefined", "undefined"),
     Plain(NameC, "SSE", "cmd", "undefined"),
     Plain(NameC, "STREAMABLE_HTTP", "undefined", "bad"),
     Descriptor(NameB, "STDIO", "cmd", "string", "undefined", "undefined"),
     Descriptor(NameB, "STDIO", "cmd", "array", "undefined", "string")}

RECURSIVE ListsOf(_)
ListsOf(n) ==
    IF n = 0 THEN {<<>>}
    ELSE LET shorter == ListsOf(n - 1)
         IN  shorter \cup {Append(l, d) : l \in shorter, d \in ServerChoices}

\* config.servers: absent, a mapping, or an array of entries
ServersChoices ==
    {[kind |-> "undefined", list |-> <<>>], [kind |-> "mapping", list |-> <<>>]}
        \cup {[kind |-> "array", list |-> l] : l \in ListsOf(MaxServers)}

\* the file at configPath and what parse() and expandEnvironmentVariables made
\* of it
ConfigOf(file, proxy, servers) == [file |-> file, proxy |-> proxy, servers |-> servers]
NoConfig == ConfigOf("none", [present |-> FALSE, port |-> PortOf("undefined", 0, FALSE)],
                     [kind |-> "undefined", list |-> <<>>])
Configs ==
    {[NoConfig EXCEPT !.file = f] : f \in {"missing", "unparsable"}}
        \cup {ConfigOf("parsed", pr, sv) : pr \in ProxyChoices, sv \in ServersChoices}

\* the configuration the other specifications run with
ServersConfig ==
    ConfigOf("parsed", [present |-> TRUE, port |-> PortOf("number", 8080, FALSE)],
             [kind |-> "array",
              list |-> [i \in 1..Len(Servers) |->
                           IF TypeOf(Servers[i]) = "STDIO"
                           THEN Plain(Servers[i], "STDIO", "cmd", "undefined")
                           ELSE Plain(Servers[i], TypeOf(Servers[i]), "undefined", "ok")]])

\* str.includes(c)
StartsWith(str, c) == str # <<>> /\ str[1] = c
Includes(str, c) == \E i \in 1..Len(str) : str[i] = c

\* validateServer: the errors of one entry
ValidateServer(server) ==
    LET type == IF server.type = "undefined" THEN "STDIO" ELSE server.type
    IN  (IF Falsy(server.name) THEN {"name"} ELSE {})
        \cup (IF ~Falsy(server.name) /\ Includes(server.name, ":") THEN {"colon"} ELSE {})
        \cup (IF type \notin {"STDIO", "SSE", "STREAMABLE_HTTP"} THEN {"type"} ELSE {})
        \cup (IF type = "STDIO"
              THEN (IF server.command = "undefined" THEN {"command"} ELSE {})
                   \cup (IF server.args \notin {"undefined", "array"} THEN {"args"} ELSE {})
              ELSE IF type \in {"SSE", "STREAMABLE_HTTP"}
              THEN (IF server.url = "undefined" THEN {"url"} ELSE {})
                   \cup (IF server.url = "bad" THEN {"urlformat"} ELSE {})
              ELSE {})
        \cup (IF server.env \notin {"undefined", "object"} THEN {"env"} ELSE {})

\* the errors about proxy
NoPortErrors(proxy) == {}
PortErrors(proxy) ==
    IF ~proxy.present THEN {"proxy"}
    ELSE (IF PortFalsy(proxy.port) \/ proxy.port.t # "number" THEN {"port"} ELSE {})
         \cup (IF PortBelow(proxy.port) \/ PortAbove(proxy.port) THEN {"portrange"} ELSE {})

\* Array.prototype.indexOf for an element the array holds
IndexOf(arr, x) == CHOOSE i \in 1..Len(arr) : arr[i] = x /\ \A j \in 1..(i - 1) : arr[j] # x

\* config.servers.map(s => s.name)
TypedNames(list) == [i \in 1..Len(list) |-> <<list[i].name, list[i].type>>]
ServerNames(list) == [i \in 1..Len(list) |-> list[i].name]

\* names.filter((name, index) => names.indexOf(name) !== index)
NoDuplicates(list) == {}
Duplicates(list) ==
    LET names == ServerNames(list)
    IN  {i \in 1..Len(list) : IndexOf(names, names[i]) # i}

\* validate: the errors, or the TypeError of config.servers.map on a mapping
Validate(cfg) ==
    LET serverErrors ==
            IF cfg.servers.kind # "array" THEN {"servers"}
            ELSE UNION {ValidateServer(cfg.servers.list[i]) : i \in 1..Len(cfg.servers.list)}
        duplicateErrors ==
            IF cfg.servers.kind = "array" /\ Duplicates(cfg.servers.list) # {}
            THEN {"duplicates"} ELSE {}
        errors == PortErrors(cfg.proxy) \cup serverErrors \cup duplicateErrors
    IN  [isValid |-> errors = {}, errors |-> errors, threw |-> cfg.servers.kind = "mapping"]

\* loadConfig returns the configuration, or the process exits with code 1
Loads(cfg) ==
    /\ cfg.file = "parsed"
    /\ ~Validate(cfg).threw
    /\ Validate(cfg).isValid

\* validate has not been called
NoValidation == [isValid |-> FALSE, errors |-> {}, threw |-> FALSE]

LoadStart ==
    /\ loadSt = "loaded"
    /\ config = ServersConfig
    /\ validation = Validate(ServersConfig)
    /\ sessions = {}

\* new MCPProxyServer(configPath): this.config = this.loadConfig(configPath)
LoadConfig(cfg) ==
    /\ loadSt = "new"
    /\ config' = cfg
    /\ validation' = IF cfg.file = "parsed" THEN Validate(cfg) ELSE NoValidation
    /\ loadSt' = IF Loads(cfg) THEN "loaded" ELSE "refused"
    /\ UNCHANGED <<sessions, routerVars, sseVars, httpVars, bootVars, envVars, statusVars>>

\* initializeMCPServers: the start task of entry i spawns the subprocess or
\* creates the transport of its session
StartEntry(i) ==
    /\ loadSt = "loaded"
    /\ i \in 1..Len(config.servers.list)
    /\ \A s \in sessions : s.entry # i
    /\ \A j \in 1..(i - 1) : \E s \in sessions : s.entry = j
    /\ sessions' = sessions \cup {[name |-> config.servers.list[i].name, entry |-> i]}
    /\ UNCHANGED <<loadSt, config, validation, routerVars, sseVars, httpVars, bootVars,
                   envVars, statusVars>>

LoadNext ==
    \/ \E cfg \in Configs : LoadConfig(cfg)
    \/ \E i \in 1..MaxServers : StartEntry(i)

-----------------------------------------------------------------------------
(* ConfigValidator.expandEnvironmentVariables (config-validator.js).  The   *)
(* configuration is an object with one member, a string under a string key. *)

MaxParts == 2

Quote == "\""
Backslash == "\\"

\* the names and values process.env is drawn from
VarV == <<"V">>
VarW == <<"W">>
Unset == <<"unset!">>
Envs ==
    {[n \in {VarV, VarW} |-> IF n = VarV THEN v ELSE w] :
        v \in {Unset, <<"o">>, <<>>, <<Quote>>, <<Backslash>>}, w \in {Unset, <<"o">>}}

\* process.env[envVar]
Getenv(env, name) == IF name \in DOMAIN env THEN env[name] ELSE Unset

Placeholder(name) == <<"$", "{">> \o name \o <<"}">>

\* the strings of the configuration: up to MaxParts of these parts
Parts ==
    {<<"x">>, Placeholder(VarV), Placeholder(VarW), Placeholder(<<>>), <<"$", "{">>,
     <<"}">>, <<Quote>>}

RECURSIVE StringsOf(_)
StringsOf(n) ==
    IF n = 0 THEN {<<>>}
    ELSE LET shorter == StringsOf(n - 1)
         IN  shorter \cup {t \o q : t \in shorter, q \in Parts}

DocOf(key, value) == [key |-> key, value |-> value]
Docs == {DocOf(k, v) : k \in {<<"k">>, Placeholder(VarV)}, v \in StringsOf(MaxParts)}

\* JSON.stringify of a string, without its quotes
RECURSIVE Escape(_)
Escape(str) ==
    IF str = <<>> THEN <<>>
    ELSE (IF Head(str) \in {Quote, Backslash} THEN <<Backslash, Head(str)>> ELSE <<Head(str)>>)
             \o Escape(Tail(str))

\* JSON.stringify(config)
Stringify(d) ==
    <<"{", Quote>> \o Escape(d.key) \o <<Quote, ":", Quote>> \o Escape(d.value) \o <<Quote, "}">>

\* the index of the first "}" of text at or after i, 0 when there is none
RECURSIVE CloseFrom(_, _)
CloseFrom(text, i) ==
    IF i > Len(text) THEN 0
    ELSE IF text[i] = "}" THEN i
    ELSE CloseFrom(text, i + 1)

\* process.env[envVar] || match
Replacement(env, envVar, match) ==
    IF Getenv(env, envVar) \in {Unset, <<>>} THEN match ELSE Getenv(env, envVar)

\* configStr.replace(/\$\{([^}]+)\}/g, ...) from index i on
RECURSIVE ReplaceFrom(_, _, _)
ReplaceFrom(text, i, env) ==
    IF i > Len(text) THEN <<>>
    ELSE LET close == CloseFrom(text, i + 2)
         IN  IF /\ i + 3 <= Len(text)
                /\ text[i] = "$" /\ text[i + 1] = "{"
                /\ close >= i + 3
             THEN Replacement(env, SubSeq(text, i + 2, close - 1), SubSeq(text, i, close))
                      \o ReplaceFrom(text, close + 1, env)
             ELSE <<text[i]>> \o ReplaceFrom(text, i + 1, env)

\* JSON.parse of a string literal that opens at index i: its value and the
\* index after its closing quote; an escape other than \" and \\ is none
\* JSON knows among the characters used here
RECURSIVE StringBody(_, _, _)
StringBody(text, i, acc) ==
    IF i > Len(text) THEN [ok |-> FALSE, str |-> <<>>, next |-> 0]
    ELSE IF text[i] = Quote THEN [ok |-> TRUE, str |-> acc, next |-> i + 1]
    ELSE IF text[i] = Backslash
    THEN IF i + 1 <= Len(text) /\ text[i + 1] \in {Quote, Backslash}
         THEN StringBody(text, i + 2, Append(acc, text[i + 1]))
         ELSE [ok |-> FALSE, str |-> <<>>, next |-> 0]
    ELSE StringBody(text, i + 1, Append(acc, text[i]))

ParseString(text, i) ==
    IF i <= Len(text) /\ text[i] = Quote THEN StringBody(text, i + 1, <<>>)
    ELSE [ok |-> FALSE, str |-> <<>>, next |-> 0]

Threw == [ok |-> FALSE, key |-> <<>>, value |-> <<>>]
Returned(d) == [ok |-> TRUE, key |-> d.key, value |-> d.value]
NotExpanded == [ok |-> FALSE, key |-> <<"none!">>, value |-> <<>>]

\* JSON.parse of the text of an object with one string member
JsonParseDoc(text) ==
    LET k == ParseString(text, 2)
        v == ParseString(text, k.next + 1)
    IN  IF /\ Len(text) >= 2 /\ text[1] = "{"
           /\ k.ok
           /\ k.next <= Len(text) /\ text[k.next] = ":"
           /\ v.ok
           /\ v.next = Len(text) /\ text[v.next] = "}"
        THEN Returned(DocOf(k.str, v.str))
        ELSE Threw

ExpandEnvironmentVariables(d, env) == JsonParseDoc(ReplaceFrom(Stringify(d), 1, env))

PlainDoc == DocOf(<<"k">>, <<"x">>)
NoEnv == [n \in {VarV, VarW} |-> Unset]

EnvStart ==
    /\ doc = PlainDoc
    /\ environ = NoEnv
    /\ expanded = ExpandEnvironmentVariables(PlainDoc, NoEnv)

\* loadConfig: config = ConfigValidator.expandEnvironmentVariables(config)
ExpandConfig(d, env) ==
    /\ expanded = NotExpanded
    /\ doc' = d
    /\ environ' = env
    /\ expanded' = ExpandEnvironmentVariables(d, env)
    /\ UNCHANGED <<routerVars, sseVars, httpVars, bootVars, loadVars, statusVars>>

EnvNext == \E d \in Docs, env \in Envs : ExpandConfig(d, env)

-----------------------------------------------------------------------------
(* start() and shutdown() (server.js).                                      *)

MaxSignals == 2

Signals == 1..MaxSignals

IdleTask == [pc |-> "idle", cur |-> <<>>, todo |-> <<>>]

BootIdle ==
    /\ phase = "listening"
    /\ begun = Len(Servers)
    /\ start = [b \in Backends |-> "registered"]
    /\ child = [b \in Backends |-> IF TypeOf(b) = "STDIO" THEN "running" ELSE "none"]
    /\ exitHandler = {b \in Backends : TypeOf(b) = "STDIO"}
    /\ task = [s \in Signals |-> IdleTask]
    /\ closeCount = [b \in Backends |-> 0]
    /\ killCount = [b \in Backends |-> 0]
    /\ wsCloseCount = [c \in Clients |-> 0]
    /\ connected = [b \in Backends |-> TypeOf(b) # "STDIO"]
    /\ probes = [b \in Backends |-> IF TypeOf(b) = "STREAMABLE_HTTP" THEN 1 ELSE 0]
    /\ probeLog = [b \in Backends |-> "ok"]

\* the state new MCPProxyServer(configPath) leaves
LifeInit ==
    /\ mcpServers = <<>>
    /\ procAlive = {}
    /\ ws = [c \in Clients |-> "none"]
    /\ req = [r \in Reqs |-> IdleReq]
    /\ sent = {}
    /\ SseStart
    /\ HttpStart
    /\ LoadStart
    /\ EnvStart
    /\ HealthStart
    /\ phase = "starting"
    /\ begun = 0
    /\ start = [b \in Backends |-> "configured"]
    /\ child = [b \in Backends |-> "none"]
    /\ exitHandler = {}
    /\ task = [s \in Signals |-> IdleTask]
    /\ closeCount = [b \in Backends |-> 0]
    /\ killCount = [b \in Backends |-> 0]
    /\ wsCloseCount = [c \in Clients |-> 0]
    /\ connected = [b \in Backends |-> FALSE]
    /\ probes = [b \in Backends |-> 0]
    /\ probeLog = [b \in Backends |-> "none"]

\* how the awaits of a start task can end: "threw" is a rejected await (for
\* fetch a network error), "status" a response that is not ok, "abort" the
\* probe's 5 s timer
Outcomes(b) ==
    IF TypeOf(b) = "STREAMABLE_HTTP" THEN {"ok", "threw", "status", "abort"}
    ELSE {"ok", "threw"}

Running == phase \in {"starting", "listening"}

\* config.servers.map(async ...): the start task of the next configured
\* backend runs up to its first await; for a STDIO backend that is past spawn,
\* which hands back a subprocess also when the command cannot be run
BeginStart(b, spawned) ==
    /\ phase = "starting"
    /\ begun < Len(Servers)
    /\ b = Servers[begun + 1]
    /\ begun' = begun + 1
    /\ start' = [start EXCEPT ![b] = "connecting"]
    /\ IF TypeOf(b) = "STDIO"
       THEN /\ child' = [child EXCEPT ![b] = IF spawned THEN "running" ELSE "failing"]
            /\ procAlive' = IF spawned THEN procAlive \cup {b} ELSE procAlive
       ELSE /\ spawned
            /\ UNCHANGED <<child, procAlive>>
    /\ probes' = IF TypeOf(b) = "STREAMABLE_HTTP" THEN [probes EXCEPT ![b] = @ + 1]
                                                  ELSE probes
    /\ UNCHANGED <<mcpServers, ws, req, sent, sseVars, httpVars, loadVars, envVars, statusVars, phase, exitHandler,
                   task, closeCount, killCount, wsCloseCount, connected, probeLog>>

\* connect(): this.connected = true after the try block and in its catch
ConnectedIfProbeOk(outcome) == outcome = "ok"
ConnectedAfter(outcome) == TRUE

\* a start task is run once per configured backend, and only its own awaits
\* resume it
Restartable(b) == start[b] # "configured"
Startable(b) == start[b] = "connecting"

\* the awaits of the start task are over.  STDIO: transport.start and
\* server.connect either threw (caught and logged by initializeMCPServers) or
\* the session is stored and the 'exit' listener attached.  SSE and
\* STREAMABLE_HTTP: connect() has logged and swallowed any failure and set
\* connected, the session is stored.
FinishStart(b, outcome) ==
    /\ phase = "starting"
    /\ begun = Len(Servers)
    /\ Startable(b)
    /\ outcome \in Outcomes(b)
    /\ probeLog' = [probeLog EXCEPT ![b] = outcome]
    /\ IF TypeOf(b) = "STDIO" /\ outcome # "ok"
       THEN /\ start' = [start EXCEPT ![b] = "failed"]
            /\ UNCHANGED <<mcpServers, exitHandler, connected>>
       ELSE /\ start' = [start EXCEPT ![b] = "registered"]
            /\ mcpServers' = Append(mcpServers, b)
            /\ exitHandler' = IF TypeOf(b) = "STDIO" THEN exitHandler \cup {b}
                                                     ELSE exitHandler
            /\ connected' = IF TypeOf(b) = "STDIO" THEN connected
                            ELSE [connected EXCEPT ![b] = ConnectedAfter(outcome)]
    /\ UNCHANGED <<procAlive, ws, req, sent, sseVars, httpVars, loadVars, envVars, statusVars, phase, begun, child,
                   task, closeCount, killCount, wsCloseCount, probes>>

\* the subprocess that could not be run emits 'error' on the next tick, after
\* the synchronous part of every start task; nothing listens for it, so the
\* event is thrown as an uncaught exception
ChildError(b) ==
    /\ Running
    /\ begun = Len(Servers)
    /\ child[b] = "failing"
    /\ phase' = "crashed"
    /\ UNCHANGED <<routerVars, sseVars, httpVars, loadVars, envVars, statusVars, begun, start, child, exitHandler,
                   task, closeCount, killCount, wsCloseCount,
                   connected, probes, probeLog>>

\* the subprocess exits; the 'exit' listener, if attached, deletes the entry
ChildExit(b) ==
    /\ Running
    /\ child[b] = "running"
    /\ child' = [child EXCEPT ![b] = "exited"]
    /\ procAlive' = procAlive \ {b}
    /\ mcpServers' = IF b \in exitHandler THEN MapDelete(mcpServers, b) ELSE mcpServers
    /\ UNCHANGED <<ws, req, sent, sseVars, httpVars, loadVars, envVars, statusVars, phase, begun, start, exitHandler,
                   task, closeCount, killCount, wsCloseCount,
                   connected, probes, probeLog>>

\* await Promise.allSettled(promises)
AnySettled == \E b \in Backends : start[b] \in {"registered", "failed"}
AllSettled == \A b \in Backends : start[b] \in {"registered", "failed"}

\* Promise.allSettled resolved: startWebSocketServer, then the signal handlers
ListenEarly ==
    /\ phase = "starting"
    /\ begun = Len(Servers)
    /\ phase' = "listening"
    /\ UNCHANGED <<routerVars, sseVars, httpVars, loadVars, envVars, statusVars, begun, start, child, exitHandler,
                   task, closeCount, killCount, wsCloseCount,
                   connected, probes, probeLog>>
Listen ==
    /\ phase = "starting"
    /\ begun = Len(Servers)
    /\ AllSettled
    /\ phase' = "listening"
    /\ UNCHANGED <<routerVars, sseVars, httpVars, loadVars, envVars, statusVars, begun, start, child, exitHandler,
                   task, closeCount, killCount, wsCloseCount,
                   connected, probes, probeLog>>

\* wss 'connection'
Connection(c) ==
    /\ phase = "listening"
    /\ ws[c] = "none"
    /\ ws' = [ws EXCEPT ![c] = "open"]
    /\ UNCHANGED <<mcpServers, procAlive, req, sent, sseVars, httpVars, bootVars,
                   loadVars, envVars, statusVars>>

\* ws 'close': the connection leaves clientConnections
WsClosed(c) ==
    /\ phase = "listening"
    /\ ws[c] = "open"
    /\ ws' = [ws EXCEPT ![c] = "closed"]
    /\ UNCHANGED <<mcpServers, procAlive, req, sent, sseVars, httpVars, bootVars,
                   loadVars, envVars, statusVars>>

\* an entry of SSE or STREAMABLE_HTTP type has a transport without a close
\* method: transport.close() throws a TypeError, which the loop catches
RECURSIVE SkipToStdio(_)
SkipToStdio(todo) ==
    IF todo = <<>> \/ TypeOf(Head(todo)) = "STDIO" THEN todo ELSE SkipToStdio(Tail(todo))

\* shutdown() from the entries `todo` on, up to its next await or, with no
\* entry left, through the loop over clientConnections to process.exit(0)
RunShutdown(s, todo) ==
    LET rest == SkipToStdio(StillRegistered(todo))
    IN  IF rest = <<>>
        THEN /\ wsCloseCount' = [c \in Clients |->
                                    IF ws[c] = "open" THEN wsCloseCount[c] + 1
                                                      ELSE wsCloseCount[c]]
             /\ ws' = [c \in Clients |-> IF ws[c] = "open" THEN "closing" ELSE ws[c]]
             /\ task' = [task EXCEPT ![s] = [pc |-> "done", cur |-> <<>>, todo |-> <<>>]]
             /\ phase' = "exited"
             /\ UNCHANGED closeCount
        ELSE /\ closeCount' = [closeCount EXCEPT ![Head(rest)] = @ + 1]
             /\ task' = [task EXCEPT ![s] = [pc |-> "awaitClose", cur |-> Head(rest),
                                             todo |-> Tail(rest)]]
             /\ UNCHANGED <<ws, wsCloseCount, phase>>

\* SIGINT or SIGTERM: () => this.shutdown()
Signal(s) ==
    /\ phase = "listening"
    /\ task[s].pc = "idle"
    /\ \A t \in Signals : t < s => task[t].pc # "idle"
    /\ RunShutdown(s, mcpServers)
    /\ UNCHANGED <<mcpServers, procAlive, req, sent, sseVars, httpVars, loadVars, envVars, statusVars, begun, start,
                   child, exitHandler, killCount,
                   connected, probes, probeLog>>

\* await transport.close() settled: process.kill() unless it rejected, then
\* the loop goes on
CloseSettled(s, ok) ==
    /\ phase = "listening"
    /\ task[s].pc = "awaitClose"
    /\ killCount' = IF ok THEN [killCount EXCEPT ![task[s].cur] = @ + 1] ELSE killCount
    /\ RunShutdown(s, task[s].todo)
    /\ UNCHANGED <<mcpServers, procAlive, req, sent, sseVars, httpVars, loadVars, envVars, statusVars, begun, start,
                   child, exitHandler,
                   connected, probes, probeLog>>

LifeNext ==
    \/ \E b \in Backends, spawned \in BOOLEAN : BeginStart(b, spawned)
    \/ \E b \in Backends, o \in {"ok", "threw", "status", "abort"} : FinishStart(b, o)
    \/ \E b \in Backends : ChildError(b)
    \/ \E b \in Backends : ChildExit(b)
    \/ Listen
    \/ \E c \in Clients : Connection(c)
    \/ \E c \in Clients : WsClosed(c)
    \/ \E s \in Signals : Signal(s)
    \/ \E s \in Signals, ok \in BOOLEAN : CloseSettled(s, ok)

-----------------------------------------------------------------------------
(* The specifications.                                                      *)

RouterStart ==
    /\ mcpServers = Servers
    /\ procAlive = {b \in Backends : TypeOf(b) = "STDIO"}
    /\ ws = [c \in Clients |-> "none"]
    /\ req = [r \in Reqs |-> IdleReq]
    /\ sent = {}

Init ==
    RouterStart /\ SseStart /\ HttpStart /\ BootIdle /\ LoadStart /\ EnvStart /\ HealthStart

\* the process before new MCPProxyServer(configPath)
LoadInit ==
    /\ RouterStart /\ SseStart /\ HttpStart /\ BootIdle /\ EnvStart /\ HealthStart
    /\ loadSt = "new"
    /\ config = NoConfig
    /\ validation = NoValidation
    /\ sessions = {}

Next ==
    \/ \E c \in Clients : ClientConnect(c)
    \/ \E c \in Clients : ClientClose(c)
    \/ \E c \in Clients, r \in Reqs, n \in CallNames : ReceiveCall(c, r, n)
    \/ \E c \in Clients, r \in Reqs : ReceiveList(c, r)
    \/ \E r \in Reqs : StdioReply(r)
    \/ \E r \in Reqs : StdioReject(r)
    \/ \E r \in Reqs : StdioTimeout(r)
    \/ \E r \in Reqs : SsePostOk(r)
    \/ \E r \in Reqs : SsePostFail(r)
    \/ \E r \in Reqs, s \in {"envelope", "rpcerror", "falsy"} : SseResolve(r, s)
    \/ \E r \in Reqs : SseTimeout(r)
    \/ \E r \in Reqs, s \in {"envelope", "rpcerror", "falsy", "undefined"} : HttpReply(r, s)
    \/ \E r \in Reqs : HttpReject(r)
    \/ \E b \in Backends : ProcExit(b)
    \/ HealthCheck

Spec == Init /\ [][Next]_vars

\* The event loop runs every timer that is due; nothing obliges a backend to
\* answer.
FairSpec ==
    /\ Spec
    /\ \A r \in Reqs : WF_vars(StdioTimeout(r)) /\ WF_vars(SseTimeout(r))

SseSpec == Init /\ [][SseNext]_vars

\* a timer that is set fires unless it is cleared
SseFairSpec == SseSpec /\ \A i \in Sends : WF_vars(RequestTimeout(i))

SseCloseSpec == Init /\ [][SseCloseNext]_vars

HttpSpec == Init /\ [][HttpNext]_vars

LifeSpec == LifeInit /\ [][LifeNext]_vars

LoadSpec == LoadInit /\ [][LoadNext]_vars

\* the configuration file has been parsed
EnvInit ==
    /\ RouterStart /\ SseStart /\ HttpStart /\ BootIdle /\ LoadStart /\ HealthStart
    /\ doc = PlainDoc
    /\ environ = NoEnv
    /\ expanded = NotExpanded

EnvSpec == EnvInit /\ [][EnvNext]_vars

-----------------------------------------------------------------------------
(* What the claims say about a tool name, stated without the handler's       *)
(* split.                                                                   *)

HasSeparator(name) == \E i \in 1..Len(name) : name[i] = ":"

FirstColon(name) == CHOOSE i \in 1..Len(name) :
                        name[i] = ":" /\ \A j \in 1..(i - 1) : name[j] # ":"

\* the text before the first ':' (the whole name when there is none)
BackendSegment(name) ==
    IF HasSeparator(name) THEN SubSeq(name, 1, FirstColon(name) - 1) ELSE name

\* the text after the first ':'
ToolSegment(name) ==
    IF HasSeparator(name) THEN SubSeq(name, FirstColon(name) + 1, Len(name)) ELSE <<>>

Malformed(name) ==
    ~HasSeparator(name) \/ BackendSegment(name) = <<>> \/ ToolSegment(name) = <<>>

Finished(r) == req[r].st \in {"answered", "dropped"}

SentFor(r) == {m \in sent : m.req = r}

\* C1: a tools/call for "b:t" is handed to the session registered under b and
\* to no other session, also when other backends expose a tool named t.
C1_RoutedToNamedBackend ==
    \A m \in sent :
        m.method = "tools/call" =>
            /\ HasSeparator(req[m.req].name)
            /\ m.backend = BackendSegment(req[m.req].name)
            /\ m.backend \in Range(req[m.req].snap)
            /\ \A m2 \in SentFor(m.req) : m2.backend = m.backend

C1_Witness ==
    \E m \in sent :
        /\ m.method = "tools/call" /\ m.backend = NameB /\ m.tool = <<"r">>
        /\ req[m.req].name = <<"b", ":", "r">>
        /\ Range(mcpServers) = Backends
        /\ \A b \in Backends : \E i \in 1..Len(Tools(b)) : Tools(b)[i].name = <<"r">>

\* C2: a tools/call whose name has no ':' or an empty backend or tool segment
\* fails with the malformed-tool-name error and nothing is sent to a backend.
C2_MalformedRejected ==
    \A r \in Reqs :
        (req[r].method = "tools/call" /\ Malformed(req[r].name)) =>
            /\ Finished(r)
            /\ req[r].out.kind = "error"
            /\ req[r].out.err = "MalformedToolName"
            /\ SentFor(r) = {}

C2_Witness ==
    \E r \in Reqs :
        /\ req[r].name = <<"a", ":">>
        /\ NameA \in Range(req[r].snap)
        /\ req[r].st = "answered"
        /\ req[r].out.err = "MalformedToolName"

\* the name passes the handler's format check, which C2's error precedes
FormatAccepted(name) ==
    /\ ~Malformed(name)
    /\ Head(ToolSegment(name)) # ":"

RECURSIVE NamespacedOf(_, _)
NamespacedOf(order, keep) ==
    IF order = <<>> THEN <<>>
    ELSE LET b == Head(order)
             mine == IF b \in keep
                     THEN [i \in 1..Len(Tools(b)) |-> b \o <<":">> \o Tools(b)[i].name]
                     ELSE <<>>
         IN  mine \o NamespacedOf(Tail(order), keep)

NamesOf(tools) == [i \in 1..Len(tools) |-> tools[i].name]

\* C4: tools/list never fails, and returns the tools of exactly the backends
\* whose own tools/list call delivered them; with one failing backend out of
\* N that is the union of the other N-1 backends' tools, namespaced.
C4_PartialAggregation ==
    \A r \in Reqs :
        (req[r].method = "tools/list" /\ Finished(r)) =>
            /\ req[r].out.kind = "result"
            /\ NamesOf(req[r].out.tools) = NamespacedOf(req[r].snap, req[r].got)
            /\ (Cardinality(req[r].failed) = 1 /\ Range(req[r].snap) \subseteq Range(mcpServers)
                    /\ req[r].got \cup req[r].failed = Range(req[r].snap))
                => NamesOf(req[r].out.tools)
                     = NamespacedOf(req[r].snap, Range(req[r].snap) \ req[r].failed)

C4_Witness ==
    \E r \in Reqs :
        /\ req[r].method = "tools/list" /\ req[r].st = "answered"
        /\ Range(req[r].snap) = Backends
        /\ req[r].failed = {NameB}
        /\ req[r].got = {NameA, NameC}
        /\ NamesOf(req[r].out.tools) = << <<"a", ":", "r">>, <<"c", ":", "r">>, <<"c", ":", "s">> >>

TimedOut(i) == calls[i].st = "rejected" /\ calls[i].err = "SSE request timeout"

\* C5: every tools/list or tools/call received on a connection that stays open
\* is eventually answered on it.
C5_EveryRequestAnswered ==
    \A r \in Reqs :
        (req[r].st = "waiting") ~>
            (\/ req[r].st = "answered"
             \/ req[r].client \in Clients /\ ws[req[r].client] # "open")

\* C6: a send that timed out was settled exactly once, its entry is gone, and
\* a later response with its id finds no entry under that id.
C6_TimeoutThenDiscard ==
    \A i \in Sends :
        TimedOut(i) =>
            /\ calls[i].settles = 1
            /\ pendingRequests[calls[i].id] = 0

C8Body == <<"x", "p", LF, "x", "r", LF>>

C8Case ==
    /\ httpSt = "returned"
    /\ msgId = "x"
    /\ contentType = "stream"
    /\ fullBody = C8Body

\* C8 as stated: the streamed body {id:x, partial:true} LF {id:x, result:42} LF
\* resolves the call for id x with the fragment carrying result 42.
C8_ResolvesWithResult ==
    C8Case => httpResult = JsonResult(Data("x", "r"))

\* C8: the streamed body {id:x, partial:true} LF {id:x, result:42} LF resolves
\* the call for id x with the first fragment whose id is x, the partial one;
\* the fragment carrying result 42 is never returned.
C8_ResolvesWithFirstMatch ==
    C8Case => httpResult = JsonResult(Data("x", "p"))

C8_Witness ==
    /\ C8Case
    /\ body = <<"x", "r", LF>>
    /\ httpResult.payload = "p"

\* C9: when the process has exited on a signal, every session in the registry
\* had its close operation invoked exactly once, no session had it invoked
\* twice, and every client connection had ws.close() invoked exactly once.
C9_ClosedExactlyOnce ==
    phase = "exited" =>
        /\ \A b \in Range(mcpServers) : closeCount[b] = 1
        /\ \A b \in Backends : closeCount[b] <= 1
        /\ \A c \in Clients : ws[c] = "closing" => wsCloseCount[c] = 1

\* C10: a backend whose start failed is not in the registry, the gateway does
\* not crash during startup and it listens once every start has settled.
C10_StartupIsolated ==
    /\ phase # "crashed"
    /\ \A b \in Backends : start[b] = "failed" => ~RegistryHas(b)
    /\ phase = "listening" => \A b \in Backends : start[b] \in {"registered", "failed"}

C12_BackendErrorSurfaced ==
    \A r \in Reqs :
        (req[r].method = "tools/call" /\ Finished(r)) =>
            /\ req[r].out.reply.shape = "rpcerror" => req[r].out.kind = "error"
            /\ Cardinality(SentFor(r)) <= 1

\* C13: while a send is in progress or pending, a response carrying its id
\* finds its entry: it is never published as an unmatched message.
C13_ResponseFindsEntry ==
    \A i \in Sends :
        calls[i].st \in {"posting", "pending"} => calls[i].id \notin emitted

\* C14: once the event channel has reported an error, the session has left
\* the registry and no pending request of it is outstanding.
C14_ErrorClosesSession ==
    ErrorEvent \in emitted =>
        /\ ~RegistryHas(SseBackend)
        /\ \A id \in IdSpace : pendingRequests[id] = 0

\* C15: no request is waiting on a STDIO session whose subprocess has exited:
\* the exit rejected it.
C15_ExitRejectsPending ==
    \A r \in Reqs :
        (req[r].st = "waiting" /\ req[r].wait = "stdio") => req[r].backend \in procAlive

\* C16: a tools/call whose name has a non-empty text before and after its
\* first ':' and whose backend is registered is sent to that backend with the
\* whole text after the first ':' as the tool name.
C16_SplitsAtFirstColon ==
    \A r \in Reqs :
        (/\ req[r].method = "tools/call"
         /\ ~Malformed(req[r].name)
         /\ BackendSegment(req[r].name) \in Range(req[r].snap)) =>
            SentFor(r) = {SentMsg(r, BackendSegment(req[r].name), "tools/call",
                                  ToolSegment(req[r].name))}

\* C17: every tool a tools/list returns carries the name key:tool and the
\* description "[key] " followed by the backend's own description, for the
\* registry key of a session that delivered its tools and one of its tools.
C17_ToolsNamespaced ==
    \A r \in Reqs :
        (req[r].method = "tools/list" /\ Finished(r)) =>
            \A k \in 1..Len(req[r].out.tools) :
                \E b \in req[r].got \cap Range(req[r].snap) :
                    \E i \in 1..Len(Tools(b)) :
                        /\ req[r].out.tools[k].name = b \o <<":">> \o Tools(b)[i].name
                        /\ req[r].out.tools[k].description
                             = <<"[">> \o b \o <<"]", " ">> \o Tools(b)[i].description

C17_Witness ==
    \E r \in Reqs :
        /\ req[r].method = "tools/list" /\ req[r].st = "answered"
        /\ \E k \in 1..Len(req[r].out.tools) :
              /\ req[r].out.tools[k].name = <<"c", ":", "s">>
              /\ req[r].out.tools[k].description = <<"[", "c", "]", " ", "S">>

\* C18: a backend that failed to start, or that was registered and has left
\* the registry, is not in the registry after any further step.
C18_NoRespawn ==
    [][\A b \in Backends :
          (start[b] \in {"registered", "failed"} /\ ~RegistryHas(b))
              => b \notin Range(mcpServers')]_vars

C18_Witness ==
    \E b \in Backends :
        /\ phase = "listening"
        /\ start[b] = "registered"
        /\ child[b] = "exited"
        /\ ~RegistryHas(b)
        /\ mcpServers # <<>>

\* C19: no two sessions (subprocess or transport) are started under the same
\* backend name.
C19_OneSessionPerName ==
    \A s1, s2 \in sessions : s1.name = s2.name => s1.entry = s2.entry

C19_Witness ==
    /\ Cardinality(sessions) = MaxServers
    /\ \E s1, s2 \in sessions : s1.name # s2.name

\* what C20 lists as failing validation
DuplicateNames(cfg) ==
    \E i, j \in 1..Len(cfg.servers.list) : i # j /\ cfg.servers.list[i].name = cfg.servers.list[j].name
ColonInName(cfg) ==
    \E i \in 1..Len(cfg.servers.list) :
        cfg.servers.list[i].name # Undefined /\ ":" \in Range(cfg.servers.list[i].name)
FieldMissing(cfg) ==
    \E i \in 1..Len(cfg.servers.list) :
        LET d == cfg.servers.list[i]
        IN  \/ d.name = Undefined
            \/ d.type \in {"STDIO", "undefined"} /\ d.command = "undefined"
            \/ d.type \in {"SSE", "STREAMABLE_HTTP"} /\ d.url = "undefined"
InvalidPort(cfg) ==
    \/ ~cfg.proxy.present
    \/ cfg.proxy.port.t # "number"
    \/ cfg.proxy.port.n < MinPort
    \/ cfg.proxy.port.n > MaxPort
    \/ cfg.proxy.port.n = MaxPort /\ cfg.proxy.port.half

FailsValidation(cfg) ==
    DuplicateNames(cfg) \/ ColonInName(cfg) \/ FieldMissing(cfg) \/ InvalidPort(cfg)

\* C20: a configuration with duplicate names, a ':' in a name, a field missing
\* for the declared type or an invalid port makes the constructor exit with
\* failure, and after that exit no session is ever started.
C20_InvalidConfigRefused ==
    /\ (loadSt # "new" /\ config.file = "parsed" /\ FailsValidation(config))
           => loadSt = "refused"
    /\ loadSt = "refused" => sessions = {}

C20_Witness ==
    /\ loadSt = "refused"
    /\ config.file = "parsed"
    /\ config.proxy.present /\ config.proxy.port = PortOf("number", 8080, FALSE)
    /\ Len(config.servers.list) = MaxServers
    /\ DuplicateNames(config)
    /\ ~ColonInName(config) /\ ~FieldMissing(config)

\* C22: validate returns isValid = false, with the error about colons, for
\* every configuration in which some server name contains ':'.
C22_ColonNameRejected ==
    (loadSt # "new" /\ config.file = "parsed" /\ config.servers.kind = "array"
        /\ ColonInName(config))
        => (~validation.isValid /\ "colon" \in validation.errors)

C22_Witness ==
    /\ loadSt = "refused"
    /\ config.file = "parsed"
    /\ ColonInName(config)
    /\ validation.errors = {"colon"}

\* C23: validate returns isValid = false, with the duplicate-names error, for
\* every configuration in which two server entries have the same name.
C23_DuplicateNamesRejected ==
    (loadSt # "new" /\ config.file = "parsed" /\ config.servers.kind = "array"
        /\ DuplicateNames(config))
        => (~validation.isValid /\ "duplicates" \in validation.errors)

C23_Witness ==
    /\ loadSt = "refused"
    /\ config.file = "parsed"
    /\ DuplicateNames(config)
    /\ validation.errors = {"duplicates"}

\* C21: a STREAMABLE_HTTP backend is probed once, at startup, and however the
\* probe ends (ok, non-OK status, network error, abort) its session is marked
\* connected and registered, so that later calls reach send()'s fetch.
C21_ProbeFailureOnlyLogged ==
    \A b \in Backends :
        TypeOf(b) = "STREAMABLE_HTTP" =>
            /\ probes[b] = (IF start[b] = "configured" THEN 0 ELSE 1)
            /\ probeLog[b] # "none" =>
                   (start[b] = "registered" /\ connected[b] /\ RegistryHas(b))

C21_Witness ==
    \E b \in Backends :
        /\ TypeOf(b) = "STREAMABLE_HTTP"
        /\ probeLog[b] = "abort"
        /\ connected[b] /\ RegistryHas(b)
        /\ phase = "listening"

\* C30: a backend is in the registry only once its start task's awaits
\* (transport start and connect) are over, and no client connection, hence no
\* tools/list or tools/call, exists while a session is being constructed.
C30_RegisteredAfterConnect ==
    /\ \A b \in Backends :
           RegistryHas(b) =>
               /\ start[b] = "registered"
               /\ probeLog[b] # "none"
               /\ TypeOf(b) # "STDIO" => connected[b]
    /\ \A c \in Clients :
           ws[c] # "none" => \A b \in Backends : start[b] # "connecting"

\* one session is registered while another is still being constructed, and
\* later a client is connected
C30_Witness ==
    /\ \E c \in Clients : ws[c] = "open"
    /\ \E b \in Backends : RegistryHas(b) /\ TypeOf(b) = "STDIO"
    /\ \E b \in Backends : RegistryHas(b) /\ probeLog[b] = "status"

\* what C24 says of one string value: each ${VAR} with VAR in the environment
\* becomes VAR's value, everything else stays
PlaceholderAt(str, i, name) ==
    /\ i + Len(name) + 2 <= Len(str)
    /\ SubSeq(str, i, i + Len(name) + 2) = Placeholder(name)

RECURSIVE ExpectedFrom(_, _, _)
ExpectedFrom(str, i, env) ==
    IF i > Len(str) THEN <<>>
    ELSE IF \E n \in DOMAIN env : PlaceholderAt(str, i, n)
    THEN LET n == CHOOSE m \in DOMAIN env : PlaceholderAt(str, i, m)
         IN  (IF env[n] = Unset THEN Placeholder(n) ELSE env[n])
                 \o ExpectedFrom(str, i + Len(n) + 3, env)
    ELSE <<str[i]>> \o ExpectedFrom(str, i + 1, env)

\* C24: expandEnvironmentVariables returns the configuration with every
\* ${VAR} of a string value replaced by the value of VAR when VAR is set, and
\* with every other part, and every placeholder of an unset variable, as it
\* was.
C24_PlaceholdersExpanded ==
    expanded # NotExpanded =>
        expanded = Returned(DocOf(doc.key, ExpectedFrom(doc.value, 1, environ)))

\* C25: tools are namespaced as server/tool: every name a tools/list returns
\* is key/tool for a registered backend and one of its tools, and a tools/call
\* for "b/t" with b registered is sent to backend b as tool t.
C25_SlashNamespaced ==
    \A r \in Reqs :
        Finished(r) =>
            /\ req[r].method = "tools/list" =>
                   \A k \in 1..Len(req[r].out.tools) :
                       \E b \in Range(req[r].snap) :
                           \E i \in 1..Len(Tools(b)) :
                               req[r].out.tools[k].name = b \o <<"/">> \o Tools(b)[i].name
            /\ req[r].method = "tools/call" =>
                   \A b \in Range(req[r].snap) :
                       \A i \in 1..Len(Tools(b)) :
                           req[r].name = b \o <<"/">> \o Tools(b)[i].name =>
                               SentFor(r) = {SentMsg(r, b, "tools/call", Tools(b)[i].name)}

\* C26: two sends that are pending at the same time on the session never
\* carry the same id.
C26_PendingIdsUnique ==
    \A i, j \in Sends :
        (i # j /\ calls[i].st = "pending" /\ calls[j].st = "pending") =>
            calls[i].id # calls[j].id

\* C27: disconnect() rejects every send that is pending, once, with its timer
\* cleared, and leaves the table empty.
C27_DisconnectRejectsAll ==
    [][(connected[SseBackend] /\ ~connected'[SseBackend]) =>
          /\ \A id \in IdSpace : pendingRequests'[id] = 0
          /\ \A i \in Sends :
                 calls[i].st = "pending" =>
                     /\ calls'[i].st = "rejected"
                     /\ calls'[i].err = "Transport disconnected"
                     /\ calls'[i].timer = "cleared"
                     /\ calls'[i].settles = 1]_vars

\* a step in which backend a fails: its subprocess exits, or a request that
\* waits on it is rejected, times out or comes back unusable
BackendFails(a) ==
    \/ a \in procAlive /\ a \notin procAlive'
    \/ \E r \in Reqs :
          /\ req[r].st = "waiting" /\ req[r].backend = a
          /\ \/ req'[r].out.kind = "error"
             \/ a \in req'[r].failed /\ a \notin req[r].failed

\* the step leaves backend b's registry entry, its subprocess and the requests
\* that wait on it as they were
Untouched(b) ==
    /\ RegistryHas(b) <=> b \in Range(mcpServers')
    /\ b \in procAlive <=> b \in procAlive'
    /\ \A q \in Reqs : (req[q].st = "waiting" /\ req[q].backend = b) => req'[q] = req[q]

C29_RegistryFrame ==
    [][/\ mcpServers' # mcpServers =>
             \/ \E b \in Backends :
                   /\ start[b] = "connecting" /\ start'[b] = "registered"
                   /\ ~RegistryHas(b)
                   /\ mcpServers' = Append(mcpServers, b)
             \/ \E b \in Backends :
                   /\ b \in procAlive /\ b \notin procAlive'
                   /\ Range(mcpServers') = Range(mcpServers) \ {b}
       /\ (req' # req \/ ws' # ws \/ sent' # sent \/ health' # health) =>
             mcpServers' = mcpServers]_vars

C29_Witness ==
    /\ health # NoHealth /\ health.totalServers = Len(Servers) - 1
    /\ mcpServers = health.servers
    /\ \E c \in Clients : ws[c] = "closed"
    /\ \E r \in Reqs : req[r].st = "answered" /\ req[r].method = "tools/list"

\* C31: when the gateway has exited on a signal, every STDIO session that was
\* in the registry had its transport's close called and its subprocess sent a
\* kill request, whether or not the close succeeded.
C31_EverySubprocessKilled ==
    phase = "exited" =>
        \A b \in Range(mcpServers) :
            TypeOf(b) = "STDIO" => (closeCount[b] >= 1 /\ killCount[b] >= 1)

\* C32: a request that is pending does not keep another tools/call from being
\* completed: when a pending send settles (is answered or times out), every
\* other pending send keeps its entry in the table, so that its own response
\* still resolves it.
C32_PendingDoesNotBlock ==
    [][\A i, j \in Sends :
          (/\ i # j
           /\ calls[i].st = "pending" /\ calls'[i].st # "pending"
           /\ calls[j].st = "pending" /\ pendingRequests[calls[j].id] = j
           /\ calls'[j].st = "pending")
              => pendingRequests'[calls[j].id] = j]_vars

\* what the claims about a streamed body say, stated on the whole text: its
\* complete fragments are the lines a newline ends
CompleteFragments(text) == Front(SplitSeq(text, LF))

MatchingFragments(text, id) ==
    {i \in 1..Len(CompleteFragments(text)) :
        LET d == JsonParse(CompleteFragments(text)[i]) IN d.ok /\ d.id = id}

FirstMatching(text, id) ==
    LET i == CHOOSE k \in MatchingFragments(text, id) :
                 \A j \in MatchingFragments(text, id) : k <= j
    IN  JsonParse(CompleteFragments(text)[i])

\* the part of the body read once `rest` is left
ReadUpTo(rest) == SubSeq(fullBody, 1, Len(fullBody) - Len(rest))

\* C33: the read that completes the first fragment with the request's id
\* returns that fragment as the result, not as an error, and nothing of the
\* stream is read after the call has returned.
C33_FirstMatchEndsStream ==
    [][/\ (httpSt = "reading" /\ MatchingFragments(ReadUpTo(body'), msgId) # {}) =>
              /\ httpSt' = "returned"
              /\ httpResult' = JsonResult(FirstMatching(fullBody, msgId))
       /\ httpSt = "returned" => body' = body]_vars

C33_Witness ==
    /\ httpSt = "returned" /\ contentType = "stream"
    /\ fullBody = <<"x", "r", LF, "y", "r", LF>>
    /\ body = <<"y", "r", LF>>
    /\ httpResult = JsonResult(Data("x", "r"))

\* the text after the last newline of a body
TrailingText(text) == Last(SplitSeq(text, LF))

NonBlank(text) == \E i \in 1..Len(text) : text[i] \notin {" ", LF}

ParsedOrOpaque(text) ==
    IF JsonParse(text).ok THEN JsonResult(JsonParse(text)) ELSE WrappedResult(text)

EndedUnmatched ==
    /\ httpSt = "returned" /\ contentType = "stream"
    /\ MatchingFragments(fullBody, msgId) = {}

\* C34 as stated: a stream that ends with no matching fragment and a non-empty
\* text after its last newline returns that text, parsed as JSON when it
\* parses and wrapped as a result string otherwise.
C34_TrailingTextReturned ==
    (EndedUnmatched /\ TrailingText(fullBody) # <<>>) =>
        httpResult = ParsedOrOpaque(TrailingText(fullBody))

\* C34: a stream that ends with no matching fragment and a text after its last
\* newline that holds more than white space returns that text, parsed as JSON
\* when it parses and wrapped as a result string otherwise; a trailing text of
\* white space only is discarded and the call returns undefined.
C34_NonBlankTrailingTextReturned ==
    EndedUnmatched =>
        httpResult = IF NonBlank(TrailingText(fullBody))
                     THEN ParsedOrOpaque(TrailingText(fullBody))
                     ELSE UndefinedResult

C34_Witness ==
    /\ EndedUnmatched
    /\ fullBody = <<"y", "r", LF, "{">>
    /\ httpResult = WrappedResult(<<"{">>)

\* the replies that carry a top-level result member
HasResultMember(rep) == rep.shape \in {"envelope", "falsy"}

\* C35: a tools/call that returns a result returns the backend's response as
\* it is when the response has a result member, whatever its value, and
\* wrapped when it has none.
C35_ResultMemberVerbatim ==
    \A r \in Reqs :
        (req[r].method = "tools/call" /\ Finished(r) /\ req[r].out.kind = "result") =>
            (req[r].out.wrapped <=> ~HasResultMember(req[r].out.reply))

\* the name tools/list gives tool t of backend b
Namespaced(b, t) == b \o <<":">> \o t

\* C36: a tools/call under the name that tools/list gives tool t of a
\* registered backend b is sent to b, once, with the tool name t, also when t
\* holds a ':'.
C36_NamespacingRoundTrips ==
    \A r \in Reqs :
        req[r].method = "tools/call" =>
            \A b \in Range(req[r].snap) :
                \A i \in 1..Len(Tools(b)) :
                    req[r].name = Namespaced(b, Tools(b)[i].name) =>
                        SentFor(r) = {SentMsg(r, b, "tools/call", Tools(b)[i].name)}

\* C37: a STDIO backend whose subprocess has exited, at any point after it was
\* spawned, is not in the registry.
C37_RegisteredSubprocessAlive ==
    \A b \in Backends :
        (TypeOf(b) = "STDIO" /\ child[b] = "exited") => ~RegistryHas(b)

\* C38: a streamed call that returns a JSON message carrying an id returns one
\* with the id of its request.
C38_ReturnedIdMatches ==
    (httpSt = "returned" /\ contentType = "stream"
        /\ httpResult.kind = "json" /\ httpResult.id \in IdChars)
        => httpResult.id = msgId

\* what a streamed body yields when it is taken as one text
WholeBodyResult(text, id) ==
    IF MatchingFragments(text, id) # {} THEN JsonResult(FirstMatching(text, id))
    ELSE IF NonBlank(TrailingText(text)) THEN ParsedOrOpaque(TrailingText(text))
    ELSE UndefinedResult

\* C39: however the body of a streamed response is split into chunks, the
\* call returns what the whole body yields, so any two chunkings of one body
\* return the same result.
C39_ChunkingIrrelevant ==
    (httpSt = "returned" /\ contentType = "stream") =>
        httpResult = WholeBodyResult(fullBody, msgId)

\* the fragment was split inside: its first character was carried in the
\* buffer when the read that completed it came
C39_Witness ==
    /\ httpSt = "returned" /\ contentType = "stream"
    /\ fullBody = <<"x", "r", LF>>
    /\ buffer = <<"x">>
    /\ httpResult = JsonResult(Data("x", "r"))

\* the start attempt of backend b is over, one way or the other
StartOver(b) == start[b] = "registered" \/ start[b] = "failed"

\* C40: the gateway begins to listen, and a client connection is accepted,
\* only when the start attempt of every configured backend is over; while a
\* start is in progress the gateway is not listening and has no client.
C40_ListensAfterAllStarts ==
    [][/\ (phase # "listening" /\ phase' = "listening") => \A b \in Backends : StartOver(b)
       /\ \A c \in Clients :
              (ws[c] = "none" /\ ws'[c] # "none") =>
                  (phase = "listening" /\ \A b \in Backends : StartOver(b))
       /\ (\E b \in Backends : ~StartOver(b)') =>
              (phase' # "listening" /\ \A c \in Clients : ws'[c] = "none")]_vars

\* a client is connected to a gateway one of whose backends failed to start
C40_Witness ==
    /\ phase = "listening"
    /\ \E c \in Clients : ws[c] = "open"
    /\ start[NameA] = "failed"
    /\ \E b \in Backends : start[b] = "registered"

====
